---- MODULE Spec2Model ----
\* Model of route_snowfall_map.py: a linear pipeline that fetches a driving
\* route (fetch_route_data), asks a weather service for the snowfall at every
\* timestamped point (fetch_snowfall_data) and renders the result to a file
\* (create_snowfall_map).
\*
\* Time is an integer number of seconds since midnight of day 0 (a datetime);
\* strftime output is modelled by the fields it prints: the day number for
\* "%Y-%m-%d" and <<day, hour, minute>> for "%Y-%m-%d %H:%M".
\* Snowfall amounts are whole centimetres.
EXTENDS Integers, Sequences, FiniteSets, TLC

VARIABLES
    pc,                 \* position of the main script
    directions_result,  \* what gmaps.directions returns for this run
    departure_time,     \* parsed user input
    stop_durations,     \* parsed user input (minutes)
    route_with_stops,   \* main: result of fetch_route_data
    acc,                \* fetch_snowfall_data: its local list snowfall_data
    response,           \* fetch_snowfall_data: the HTTP response of the current iteration
    snowfall_data,      \* main: result of fetch_snowfall_data (empty until it returns)
    requests,           \* params of every weather request issued, in order
    events,             \* every HTTP exchange and file write, in order
    stdout,             \* lines printed
    files,              \* maps saved by m.save
    exception           \* the exception that ended the run, if any

vars == <<pc, directions_result, departure_time, stop_durations, route_with_stops,
          acc, response, snowfall_data, requests, events, stdout, files, exception>>

----------------------------------------------------------------------------
\* Bounds of the model

MaxLegs == 2
MaxSteps == 2
MaxStops == 2
MaxPoints == 3

\* Step durations (seconds) the directions service may return
StepDurations == {0, 5400}

\* Stop durations (minutes) the user may type; int() accepts a sign
StopMinutes == {-30, 45}

\* Python's None, for a value that is otherwise a record
None == [none |-> TRUE]

NoException == "none"

SeqsUpTo(S, n) == UNION {[1..k -> S] : k \in 0..n}

----------------------------------------------------------------------------
\* datetime helpers

\* datetime.strptime(text, "%Y-%m-%d %H:%M"): the seconds field is 0
strptime(day, hour, minute) == day * 86400 + hour * 3600 + minute * 60

\* Departure times the user may type: on the hour and off the hour, late in
\* the day so that a route crosses midnight
DepartureTimes == {strptime(1, 23, 0), strptime(1, 23, 30)}

timedelta_seconds(s) == s

timedelta_minutes(m) == 60 * m

\* time.strftime("%Y-%m-%d")
strftime_date(t) == t \div 86400

\* time.strftime("%Y-%m-%d %H:%M"): the seconds are dropped
strftime_minute(t) == <<t \div 86400, (t % 86400) \div 3600, (t % 3600) \div 60>>

----------------------------------------------------------------------------
\* Directions results

\* Each location of a route gets its own coordinates, so that a dropped,
\* duplicated or reordered point is visible
Location(i, j) == [lat |-> 10 * i + j, lng |-> 100 + 10 * i + j]

Leg(i, durs) ==
    [steps |-> [j \in 1..Len(durs) |->
                   [start_location |-> Location(i, j),
                    duration |-> [value |-> durs[j]]]],
     end_location |-> Location(i, Len(durs) + 1)]

Route(legdurs) == [legs |-> [i \in 1..Len(legdurs) |-> Leg(i, legdurs[i])]]

LegDurations == SeqsUpTo(SeqsUpTo(StepDurations, MaxSteps), MaxLegs) \ {<<>>}

DirectionsResults == {<<>>} \cup {<<Route(d)>> : d \in LegDurations}

----------------------------------------------------------------------------
\* fetch_route_data

\* A slip in the inner loop: the duration is added before the point is recorded
RECURSIVE WalkSteps_AddsFirst(_, _)
WalkSteps_AddsFirst(steps, timestamp) ==
    IF steps = <<>>
    THEN [points |-> <<>>, timestamp |-> timestamp]
    ELSE LET substep == Head(steps)
             location == substep.start_location
             later == timestamp + timedelta_seconds(substep.duration.value)
             rest == WalkSteps_AddsFirst(Tail(steps), later)
         IN  [points |-> <<[lat |-> location.lat, lon |-> location.lng,
                            time |-> later]>> \o rest.points,
              timestamp |-> rest.timestamp]

\* The inner loop over step["steps"]: the points appended and the timestamp
\* after the last substep
RECURSIVE WalkSteps(_, _)
WalkSteps(steps, timestamp) ==
    IF steps = <<>>
    THEN [points |-> <<>>, timestamp |-> timestamp]
    ELSE LET substep == Head(steps)
             location == substep.start_location
             duration == substep.duration.value
             rest == WalkSteps(Tail(steps), timestamp + timedelta_seconds(duration))
         IN  [points |-> <<[lat |-> location.lat, lon |-> location.lng,
                            time |-> timestamp]>> \o rest.points,
              timestamp |-> rest.timestamp]

\* A slip in the outer loop: the stop is added before the leg's end point is
\* recorded
RECURSIVE WalkLegs_StopFirst(_, _, _, _)
WalkLegs_StopFirst(legs, i, timestamp, stops) ==
    IF i >= Len(legs)
    THEN <<>>
    ELSE LET step == legs[i + 1]
             walked == WalkSteps(step.steps, timestamp)
             end_location == step.end_location
             after == IF i < Len(stops)
                      THEN walked.timestamp + timedelta_minutes(stops[i + 1])
                      ELSE walked.timestamp
             endpoint == [lat |-> end_location.lat, lon |-> end_location.lng,
                          time |-> after]
         IN  walked.points \o <<endpoint>>
             \o WalkLegs_StopFirst(legs, i + 1, after, stops)

\* The outer loop over enumerate(route["legs"]), from leg i (0-based) on
RECURSIVE WalkLegs(_, _, _, _)
WalkLegs(legs, i, timestamp, stops) ==
    IF i >= Len(legs)
    THEN <<>>
    ELSE LET step == legs[i + 1]
             walked == WalkSteps(step.steps, timestamp)
             end_location == step.end_location
             endpoint == [lat |-> end_location.lat, lon |-> end_location.lng,
                          time |-> walked.timestamp]
             after == IF i < Len(stops)
                      THEN walked.timestamp + timedelta_minutes(stops[i + 1])
                      ELSE walked.timestamp
         IN  walked.points \o <<endpoint>> \o WalkLegs(legs, i + 1, after, stops)

fetch_route_data(directions, departure, stops) ==
    IF directions = <<>>
    THEN <<>>
    ELSE WalkLegs(directions[1].legs, 0, departure, stops)

----------------------------------------------------------------------------
\* State machine

InitState(directions, departure, stops) ==
    /\ pc = "main"
    /\ directions_result = directions
    /\ departure_time = departure
    /\ stop_durations = stops
    /\ route_with_stops = <<>>
    /\ acc = <<>>
    /\ response = None
    /\ snowfall_data = <<>>
    /\ requests = <<>>
    /\ events = <<>>
    /\ stdout = <<>>
    /\ files = <<>>
    /\ exception = NoException

\* Inputs of the route stage alone
InitRoute ==
    \E directions \in DirectionsResults, departure \in DepartureTimes,
       stops \in SeqsUpTo(StopMinutes, MaxStops) :
        InitState(directions, departure, stops)

\* main, line 133: the call of fetch_route_data
FetchRouteData ==
    /\ pc = "main"
    /\ route_with_stops' = fetch_route_data(directions_result, departure_time, stop_durations)
    /\ events' = Append(events, "directions")
    /\ stdout' = IF directions_result = <<>>
                 THEN Append(stdout, "No directions found.")
                 ELSE stdout
    /\ pc' = "fetch_snowfall"
    /\ UNCHANGED <<directions_result, departure_time, stop_durations, acc, response,
                   snowfall_data, requests, files, exception>>

NextRoute == FetchRouteData

SpecRoute == InitRoute /\ [][NextRoute]_vars

----------------------------------------------------------------------------
\* Weather responses

\* Snowfall amounts (cm) a forecast hour may carry
SnowValues == {0, 1, 2, 3}

\* Hours of the day for which a forecast may hold an entry
ForecastHours == {23, 0}

\* The hour entries of the forecast for day dt: their time is
\* "YYYY-MM-DD HH:00"; the 'snow' field may be missing
HourEntries(dt) ==
    {[time |-> <<dt, h, 0>>, snow |-> s] : h \in ForecastHours, s \in SnowValues}
    \cup {[time |-> <<dt, h, 0>>] : h \in ForecastHours}

HourLists(dt) ==
    {<<>>} \cup {<<e>> : e \in HourEntries(dt)}
    \cup {<<e1, e2>> : e1 \in HourEntries(dt), e2 \in HourEntries(dt)}

\* What the weather service may answer to a request for day dt: an HTTP
\* error, a body without a forecast day, or a body with one forecast day
Responses(dt) ==
    {[status |-> "error"], [status |-> "ok", forecastday |-> <<>>]}
    \cup {[status |-> "ok", forecastday |-> <<[hour |-> hours]>>] : hours \in HourLists(dt)}

\* Inputs of a whole run: routes of at most MaxPoints points
NumPoints(directions) ==
    IF directions = <<>> THEN 0 ELSE Len(WalkLegs(directions[1].legs, 0, 0, <<>>))

PipelineStops == {<<>>, <<45>>}

Init ==
    \E directions \in DirectionsResults, departure \in DepartureTimes,
       stops \in PipelineStops :
        /\ NumPoints(directions) <= MaxPoints
        /\ InitState(directions, departure, stops)

----------------------------------------------------------------------------
\* fetch_snowfall_data

\* lines 64-68
RequestParams(point) ==
    [q |-> <<point.lat, point.lon>>, dt |-> strftime_date(point.time)]

\* lines 75-78: next(...) over forecast_day["hour"], None when nothing matches
RECURSIVE FindHour(_, _)
FindHour(hours, wanted) ==
    IF hours = <<>> THEN None
    ELSE IF Head(hours).time = wanted THEN Head(hours)
    ELSE FindHour(Tail(hours), wanted)

\* line 80: hour_data.get("snow", 0.0) if hour_data else 0.0
SnowOf(hour_data) ==
    IF hour_data = None THEN 0
    ELSE IF "snow" \in DOMAIN hour_data THEN hour_data.snow
    ELSE 0

\* lines 74-86: the SnowfallPoint built from a body with a forecast day
SnowfallPoint(point, forecast_day) ==
    LET hour_data == FindHour(forecast_day.hour, strftime_minute(point.time))
    IN  [lat |-> point.lat, lon |-> point.lon, time |-> point.time,
         snowfall |-> SnowOf(hour_data)]

\* A slip: the request is fired and the loop goes on without waiting for
\* the response
SendWeatherRequest_NoWait ==
    /\ pc = "fetch_snowfall"
    /\ Len(acc) < Len(route_with_stops)
    /\ requests' = Append(requests, RequestParams(route_with_stops[Len(acc) + 1]))
    /\ events' = Append(events, "weather_request")
    /\ acc' = Append(acc, SnowfallPoint(route_with_stops[Len(acc) + 1], [hour |-> <<>>]))
    /\ response' = None
    /\ pc' = "fetch_snowfall"
    /\ UNCHANGED <<directions_result, departure_time, stop_durations, route_with_stops,
                   snowfall_data, stdout, files, exception>>

\* line 63, loop continues; lines 64-69: requests.get is issued (the previous
\* iteration's response is dead from here on)
SendWeatherRequest ==
    /\ pc = "fetch_snowfall"
    /\ Len(acc) < Len(route_with_stops)
    /\ requests' = Append(requests, RequestParams(route_with_stops[Len(acc) + 1]))
    /\ events' = Append(events, "weather_request")
    /\ response' = None
    /\ pc' = "awaiting"
    /\ UNCHANGED <<directions_result, departure_time, stop_durations, route_with_stops,
                   acc, snowfall_data, stdout, files, exception>>

\* line 69: requests.get returns
ReceiveWeatherResponse ==
    /\ pc = "awaiting"
    /\ \E r \in Responses(requests[Len(requests)].dt) :
        /\ response' = r
        /\ events' = Append(events, IF r.status = "ok" THEN "weather_ok"
                                    ELSE "weather_http_error")
    /\ pc' = "handling"
    /\ UNCHANGED <<directions_result, departure_time, stop_durations, route_with_stops,
                   acc, snowfall_data, requests, stdout, files, exception>>

\* A slip: the HTTP error is swallowed and the request is issued again
RaiseForStatus_Retry ==
    /\ pc = "handling"
    /\ response.status = "error"
    /\ pc' = "fetch_snowfall"
    /\ UNCHANGED <<directions_result, departure_time, stop_durations, route_with_stops,
                   acc, response, snowfall_data, requests, events, stdout, files,
                   exception>>

\* line 70: raise_for_status raises; nothing catches it
RaiseForStatus ==
    /\ pc = "handling"
    /\ response.status = "error"
    /\ exception' = "HTTPError"
    /\ pc' = "raised"
    /\ UNCHANGED <<directions_result, departure_time, stop_durations, route_with_stops,
                   acc, response, snowfall_data, requests, events, stdout, files>>

\* line 74: [0] of an empty forecastday list raises; nothing catches it
RaiseIndexError ==
    /\ pc = "handling"
    /\ response.status = "ok"
    /\ response.forecastday = <<>>
    /\ exception' = "IndexError"
    /\ pc' = "raised"
    /\ UNCHANGED <<directions_result, departure_time, stop_durations, route_with_stops,
                   acc, response, snowfall_data, requests, events, stdout, files>>

\* A slip: hour_data["snow"] for hour_data.get("snow", 0.0), which raises
\* when the matching entry has no 'snow' field
AppendSnowfall_KeyError ==
    /\ pc = "handling"
    /\ response.status = "ok"
    /\ response.forecastday # <<>>
    /\ LET point == route_with_stops[Len(acc) + 1]
           hour_data == FindHour(response.forecastday[1].hour, strftime_minute(point.time))
       IN  IF hour_data # None /\ "snow" \notin DOMAIN hour_data
           THEN /\ exception' = "KeyError"
                /\ pc' = "raised"
                /\ UNCHANGED acc
           ELSE /\ acc' = Append(acc, SnowfallPoint(point, response.forecastday[1]))
                /\ pc' = "fetch_snowfall"
                /\ UNCHANGED exception
    /\ UNCHANGED <<directions_result, departure_time, stop_durations, route_with_stops,
                   response, snowfall_data, requests, events, stdout, files>>

\* lines 71-86: the point is appended and the loop goes on
AppendSnowfall ==
    /\ pc = "handling"
    /\ response.status = "ok"
    /\ response.forecastday # <<>>
    /\ acc' = Append(acc, SnowfallPoint(route_with_stops[Len(acc) + 1],
                                        response.forecastday[1]))
    /\ pc' = "fetch_snowfall"
    /\ UNCHANGED <<directions_result, departure_time, stop_durations, route_with_stops,
                   response, snowfall_data, requests, events, stdout, files, exception>>

\* line 63, loop exhausted; line 88 and main line 136
ReturnSnowfallData ==
    /\ pc = "fetch_snowfall"
    /\ Len(acc) = Len(route_with_stops)
    /\ snowfall_data' = acc
    /\ response' = None
    /\ pc' = "create_map"
    /\ UNCHANGED <<directions_result, departure_time, stop_durations, route_with_stops,
                   acc, requests, events, stdout, files, exception>>

----------------------------------------------------------------------------
\* create_snowfall_map

\* A slip in the colour thresholds: < 2 for <= 2
Color_Strict(snowfall) ==
    IF snowfall = 0 THEN "blue"
    ELSE IF snowfall < 2 THEN "lightblue"
    ELSE "darkblue"

\* line 103
Color(snowfall) ==
    IF snowfall = 0 THEN "blue"
    ELSE IF snowfall <= 2 THEN "lightblue"
    ELSE "darkblue"

\* line 106
Radius(snowfall) == 5 + snowfall * 2

\* lines 104-111
CircleMarker(data) ==
    [location |-> <<data.lat, data.lon>>,
     radius |-> Radius(data.snowfall),
     popup |-> [time |-> data.time, snowfall |-> data.snowfall],
     color |-> Color(data.snowfall)]

\* lines 100-111: the map that m.save writes
RenderMap(data) ==
    [location |-> <<data[1].lat, data[1].lon>>,
     markers |-> [n \in 1..Len(data) |-> CircleMarker(data[n])]]

\* A slip: the guard for an empty list is missing and an empty map is saved
CreateSnowfallMap_NoGuard ==
    /\ pc = "create_map"
    /\ files' = Append(files,
                       IF snowfall_data = <<>>
                       THEN [location |-> <<0, 0>>, markers |-> <<>>]
                       ELSE RenderMap(snowfall_data))
    /\ events' = Append(events, "map_saved")
    /\ stdout' = Append(stdout, "Map saved to snowfall_map.html")
    /\ pc' = "done"
    /\ UNCHANGED <<directions_result, departure_time, stop_durations, route_with_stops,
                   acc, response, snowfall_data, requests, exception>>

\* main line 139: the call of create_snowfall_map
CreateSnowfallMap ==
    /\ pc = "create_map"
    /\ IF snowfall_data = <<>>
       THEN /\ stdout' = Append(stdout, "No snowfall data to display.")
            /\ UNCHANGED <<files, events>>
       ELSE /\ files' = Append(files, RenderMap(snowfall_data))
            /\ events' = Append(events, "map_saved")
            /\ stdout' = Append(stdout, "Map saved to snowfall_map.html")
    /\ pc' = "done"
    /\ UNCHANGED <<directions_result, departure_time, stop_durations, route_with_stops,
                   acc, response, snowfall_data, requests, exception>>

Next ==
    \/ FetchRouteData
    \/ SendWeatherRequest
    \/ ReceiveWeatherResponse
    \/ RaiseForStatus
    \/ RaiseIndexError
    \/ AppendSnowfall
    \/ ReturnSnowfallData
    \/ CreateSnowfallMap

Spec == Init /\ [][Next]_vars

----------------------------------------------------------------------------
\* Properties of fetch_route_data (checked under SpecRoute)

RECURSIVE SumSeq(_)
SumSeq(q) == IF q = <<>> THEN 0 ELSE Head(q) + SumSeq(Tail(q))

Min(a, b) == IF a <= b THEN a ELSE b

Returned == pc # "main"

Legs == directions_result[1].legs

\* Seconds of driving in leg i
LegSeconds(i) == SumSeq([k \in 1..Len(Legs[i].steps) |-> Legs[i].steps[k].duration.value])

\* Number of points of the legs before leg i
Offset(i) == SumSeq([k \in 1..(i - 1) |-> Len(Legs[k].steps) + 1])

\* The j-th point of leg i: its steps' start locations, then its end location
PointOf(i, j) == route_with_stops[Offset(i) + j]

FirstPointOf(i) == PointOf(i, 1)

EndPointOf(i) == PointOf(i, Len(Legs[i].steps) + 1)

\* Departure plus the seconds of every step before step j of leg i plus the
\* minutes of every stop at the end of a leg before leg i
ExpectedTime(i, j) ==
    departure_time
    + SumSeq([k \in 1..(i - 1) |-> LegSeconds(k)])
    + SumSeq([k \in 1..(j - 1) |-> Legs[i].steps[k].duration.value])
    + 60 * SumSeq([k \in 1..Min(i - 1, Len(stop_durations)) |-> stop_durations[k]])

ExpectedLocation(i, j) ==
    IF j <= Len(Legs[i].steps)
    THEN Legs[i].steps[j].start_location
    ELSE Legs[i].end_location

\* C1: in the list fetch_route_data returns, no point's timestamp is earlier
\* than the timestamp of the point before it, for every directions result and
\* every list of integer stop durations.
C1_TimestampsMonotonic ==
    Returned =>
        \A n \in 2..Len(route_with_stops) :
            route_with_stops[n].time >= route_with_stops[n - 1].time

\* C3: the first point carries the departure time; every point's timestamp is
\* the departure time plus the seconds of all steps before it plus the minutes
\* of all stops at the ends of the legs before its leg; the list holds, per leg
\* in order, one point per step (its start location) and then the leg's end
\* location, so its length is the sum over the legs of (steps + 1).
C3_Accumulation ==
    (Returned /\ directions_result # <<>>) =>
        /\ Len(route_with_stops) = Offset(Len(Legs) + 1)
        /\ route_with_stops[1].time = departure_time
        /\ \A i \in 1..Len(Legs) : \A j \in 1..(Len(Legs[i].steps) + 1) :
            /\ PointOf(i, j).time = ExpectedTime(i, j)
            /\ PointOf(i, j).lat = ExpectedLocation(i, j).lat
            /\ PointOf(i, j).lon = ExpectedLocation(i, j).lng

\* A route of two legs with steps that take time and a stop between the legs
C3_Witness ==
    /\ Returned
    /\ directions_result # <<>>
    /\ Len(Legs) = 2
    /\ Len(Legs[1].steps) = 2
    /\ Len(Legs[2].steps) = 2
    /\ LegSeconds(1) > 0
    /\ LegSeconds(2) > 0
    /\ Len(stop_durations) >= 1
    /\ route_with_stops[Len(route_with_stops)].time # departure_time

\* C9: the end point of leg i carries the arrival time at the stop, the first
\* point of leg i+1 carries that time plus stop_durations[i] minutes when there
\* is such a stop duration and the same time when there is none, and stop
\* durations whose index is that of the final leg or beyond change nothing in
\* the returned list.
C9_StopAfterEndPoint ==
    (Returned /\ directions_result # <<>>) =>
        /\ \A i \in 1..Len(Legs) :
            EndPointOf(i).time = FirstPointOf(i).time + LegSeconds(i)
        /\ \A i \in 1..(Len(Legs) - 1) :
            FirstPointOf(i + 1).time =
                EndPointOf(i).time
                + (IF i <= Len(stop_durations) THEN 60 * stop_durations[i] ELSE 0)
        /\ route_with_stops =
            fetch_route_data(directions_result, departure_time,
                SubSeq(stop_durations, 1, Min(Len(stop_durations), Len(Legs) - 1)))
        /\ route_with_stops[Len(route_with_stops)].time =
            departure_time
            + SumSeq([k \in 1..Len(Legs) |-> LegSeconds(k)])
            + 60 * SumSeq([k \in 1..Min(Len(Legs) - 1, Len(stop_durations))
                              |-> stop_durations[k]])

\* Two legs and a stop duration for each of them, the first one not zero
C9_Witness ==
    /\ Returned
    /\ directions_result # <<>>
    /\ Len(Legs) = 2
    /\ Len(stop_durations) = 2
    /\ FirstPointOf(2).time # EndPointOf(1).time
    /\ LegSeconds(1) > 0

----------------------------------------------------------------------------
\* Properties of a whole run (checked under Spec)

Last(q) == q[Len(q)]

\* The point the latest weather request was issued for
RequestedPoint == route_with_stops[Len(requests)]

Count(e) == Cardinality({k \in 1..Len(events) : events[k] = e})

SamePlaceAndTime(a, b) == a.lat = b.lat /\ a.lon = b.lon /\ a.time = b.time

\* C2: when the directions service returns an empty result, fetch_route_data
\* logs and returns an empty list, no weather request is issued,
\* fetch_snowfall_data returns an empty list and no file is written.
C2_EmptyDirections ==
    directions_result = <<>> =>
        /\ pc \in {"main", "fetch_snowfall", "create_map", "done"}
        /\ route_with_stops = <<>>
        /\ requests = <<>>
        /\ acc = <<>>
        /\ snowfall_data = <<>>
        /\ files = <<>>
        /\ exception = NoException
        /\ pc # "main" => (events = <<"directions">> /\ stdout[1] = "No directions found.")
        /\ pc = "done" => stdout = <<"No directions found.", "No snowfall data to display.">>

\* The run has ended on an empty directions result
C2_Witness ==
    /\ directions_result = <<>>
    /\ pc = "done"
    /\ Len(stdout) = 2

\* C4: in a run in which every weather request succeeds, fetch_snowfall_data
\* issues one lookup per input point, in route order, and returns a list of
\* the same length whose i-th entry has the latitude, longitude and timestamp
\* of the i-th input point; the input list is left unchanged.
C4_OneLookupPerPoint ==
    (\A k \in 1..Len(events) : events[k] # "weather_http_error") =>
        /\ pc # "raised"
        /\ pc # "main" =>
            route_with_stops = fetch_route_data(directions_result, departure_time,
                                                stop_durations)
        /\ \A n \in 1..Len(requests) :
            requests[n] = [q |-> <<route_with_stops[n].lat, route_with_stops[n].lon>>,
                           dt |-> route_with_stops[n].time \div 86400]
        /\ \A n \in 1..Len(acc) : SamePlaceAndTime(acc[n], route_with_stops[n])
        /\ pc \in {"create_map", "done"} =>
            /\ snowfall_data = acc
            /\ Len(snowfall_data) = Len(route_with_stops)
            /\ Len(requests) = Len(route_with_stops)

\* The forecast hour entry in which time t falls is the one of t's day and hour
HourEntryTime(t) == <<t \div 86400, (t % 86400) \div 3600, 0>>

EntriesAt(hours, time) == {n \in 1..Len(hours) : hours[n].time = time}

FirstAt(hours, time) ==
    hours[CHOOSE n \in EntriesAt(hours, time) : \A m \in EntriesAt(hours, time) : n <= m]

Handled ==
    /\ pc = "fetch_snowfall"
    /\ response # None

\* C5: whatever the minute of the arrival, the forecast is requested for the
\* arrival's date and the snowfall recorded is the 'snow' value of the forecast
\* hour entry in which the arrival falls.
C5_SnowOfArrivalHour ==
    Handled =>
        LET point == RequestedPoint
            hours == response.forecastday[1].hour
            at == HourEntryTime(point.time)
        IN  /\ Last(requests).dt = point.time \div 86400
            /\ (EntriesAt(hours, at) # {} /\ "snow" \in DOMAIN FirstAt(hours, at)) =>
                Last(acc).snowfall = FirstAt(hours, at).snow

\* C6: an HTTP error for the k-th point ends the run as an exception: it is
\* the last HTTP exchange of the run (no retry, no request for a later point),
\* the k-1 values already obtained are not returned and no map is written.
C6_HttpErrorPropagates ==
    \A k \in 1..Len(events) :
        events[k] = "weather_http_error" =>
            /\ k = Len(events)
            /\ pc \in {"handling", "raised"}
            /\ pc = "raised" => exception = "HTTPError"
            /\ Len(requests) = Len(acc) + 1
            /\ Count("weather_request") = Len(requests)
            /\ snowfall_data = <<>>
            /\ files = <<>>

\* The request for the second point has failed after the first point's
\* snowfall was obtained
C6_Witness ==
    /\ pc = "raised"
    /\ exception = "HTTPError"
    /\ Len(acc) = 1
    /\ acc[1].snowfall > 0
    /\ Len(requests) = 2

\* C7: exactly one directions call, completed before any weather request; each
\* weather request completes before the next is issued; the map file is
\* written at most once and only after the weather request for the last point
\* has completed; no stage is re-entered.
C7_SequentialStages ==
    /\ pc = "main" <=> events = <<>>
    /\ pc = "awaiting" <=> (events # <<>> /\ Last(events) = "weather_request")
    /\ \A k \in 1..Len(events) :
        /\ events[k] = "directions" <=> k = 1
        /\ events[k] = "weather_request" =>
            /\ events[k - 1] \in {"directions", "weather_ok"}
            /\ k < Len(events) => events[k + 1] \in {"weather_ok", "weather_http_error"}
        /\ events[k] \in {"weather_ok", "weather_http_error"} =>
            events[k - 1] = "weather_request"
        /\ events[k] = "map_saved" =>
            /\ k = Len(events)
            /\ events[k - 1] = "weather_ok"
            /\ Count("weather_ok") = Len(route_with_stops)
            /\ Count("weather_request") = Len(route_with_stops)
            /\ pc = "done"
    /\ Len(files) = Count("map_saved")
    /\ Len(files) <= 1
    /\ Len(requests) = Count("weather_request")

\* A run of at least two weather requests that has written its map
C7_Witness ==
    /\ pc = "done"
    /\ Len(files) = 1
    /\ Len(requests) >= 2
    /\ Last(events) = "map_saved"

\* C8: for a non-empty list one marker per point, at its latitude/longitude,
\* 'blue' for snowfall 0, 'lightblue' for snowfall in (0, 2], 'darkblue' above
\* 2, radius 5 + 2 * snowfall, the map centred on the first point, and one file
\* written; for an empty list no marker and no file.
C8_Markers ==
    /\ pc # "done" => files = <<>>
    /\ pc = "done" =>
        IF snowfall_data = <<>>
        THEN files = <<>>
        ELSE /\ Len(files) = 1
             /\ files[1].location = <<snowfall_data[1].lat, snowfall_data[1].lon>>
             /\ Len(files[1].markers) = Len(snowfall_data)
             /\ \A n \in 1..Len(snowfall_data) :
                 LET marker == files[1].markers[n]
                     snowfall == snowfall_data[n].snowfall
                 IN  /\ marker.location = <<snowfall_data[n].lat, snowfall_data[n].lon>>
                     /\ marker.radius = 5 + 2 * snowfall
                     /\ snowfall = 0 => marker.color = "blue"
                     /\ (snowfall > 0 /\ snowfall <= 2) => marker.color = "lightblue"
                     /\ snowfall > 2 => marker.color = "darkblue"

\* A map with a marker of each colour, the light blue one at the threshold
C8_Witness ==
    /\ pc = "done"
    /\ Len(files) = 1
    /\ \E a, b, c \in 1..Len(snowfall_data) :
        /\ snowfall_data[a].snowfall = 0
        /\ snowfall_data[b].snowfall = 2
        /\ snowfall_data[c].snowfall = 3

\* The response holds a forecast day without a usable value for the requested
\* point: no hour entry whose time is the point's timestamp formatted as
\* 'YYYY-MM-DD HH:MM', or the matching entry has no 'snow' field
NoHourlyValue ==
    /\ response # None
    /\ response.status = "ok"
    /\ response.forecastday # <<>>
    /\ LET hours == response.forecastday[1].hour
           wanted == <<RequestedPoint.time \div 86400,
                       (RequestedPoint.time % 86400) \div 3600,
                       (RequestedPoint.time % 3600) \div 60>>
       IN  \/ EntriesAt(hours, wanted) = {}
           \/ "snow" \notin DOMAIN FirstAt(hours, wanted)

\* C10: when a successful response with a forecast day has no hour entry for
\* the point's formatted timestamp, or the matching entry has no 'snow' field,
\* the point is emitted with snowfall 0 and the loop goes on with the next
\* point; the run is not aborted and no point is removed.
C10_MissingHourIsZero ==
    NoHourlyValue =>
        /\ pc \in {"handling", "fetch_snowfall"}
        /\ exception = NoException
        /\ pc = "fetch_snowfall" =>
            /\ Len(acc) = Len(requests)
            /\ SamePlaceAndTime(Last(acc), RequestedPoint)
            /\ Last(acc).snowfall = 0

\* The matching hour entry has no 'snow' field and the point was emitted
C10_Witness ==
    /\ NoHourlyValue
    /\ pc = "fetch_snowfall"
    /\ \E n \in 1..Len(response.forecastday[1].hour) :
        /\ response.forecastday[1].hour[n].time[2] = (RequestedPoint.time % 86400) \div 3600
        /\ RequestedPoint.time % 3600 = 0
    /\ Len(acc) = 2

====
